---- MODULE Spec2Model ----
(***************************************************************************)
(* Context caching and prompt assembly of the chat client:                 *)
(*   - the cache breakpoint planner (anthropic-cache middleware),          *)
(*   - the token accounting cache (computePreviewMetadata),                *)
(*   - the content ingestion pipeline (preprocessFile, preprocessLink),    *)
(*   - the session search (searchSessions).                                *)
(*                                                                         *)
(* JavaScript objects are modelled as functions from property names to     *)
(* values; an absent property is a name outside the DOMAIN.  Arrays and    *)
(* message objects of the planner live in a small heap so that aliasing    *)
(* and in-place mutation are observable.  Indices are 0-based, as in the   *)
(* source; At(s, i) reads the element at 0-based index i.                  *)
(***************************************************************************)
EXTENDS Integers, Sequences, FiniteSets, TLC

VARIABLES
  heap,        \* planner: [arr: array id -> Seq(message ref), msg: message ref -> message]
  promptRef,   \* planner: array id of params.prompt of the current call (0: no call yet)
  resultRef,   \* planner: array id returned by injectCacheControl (0: not returned yet)
  pc,          \* planner: "idle" | "ready" (call pending) | "sent" (transformed prompt sent)
  origin,      \* planner: how the caller assembled params.prompt of the current call
  given,       \* planner: the messages of params.prompt as the caller passed them
  sent,        \* planner: the messages of the last transformed prompt handed to the provider
  prevSent,    \* planner: the messages handed to the provider by the call before that
  first,       \* planner: [in, out] of the first call of the run (<<>> before it)
  tkPc,        \* token accounting: "idle" | "done" (computePreviewMetadata returned)
  tkArgs,      \* token accounting: arguments of the last call and the clock it read
  tkRet,       \* token accounting: what the last call returned
  tkCalls,     \* token accounting: the estimateTokens invocations of the last call
  blobs,       \* content store: blob key -> content (storage.getBlob / setBlob)
  items,       \* content store: item key -> value (storage.getItem / setItem)
  settings,    \* ingestion: the file at hand, parser configuration and platform
  tokenizer,   \* ingestion: tokenizer of the last used chat model
  procs,       \* ingestion: the preprocessFile invocations, one record per task
  hist,        \* ingestion: invocations started, whether one has returned without error
  sessionStore, \* search: the stored session list and session records
  search       \* search: the searchSessions invocation and what it has loaded and emitted

plannerVars == <<heap, promptRef, resultRef, pc, origin, given, sent, prevSent, first>>

tokenVars == <<tkPc, tkArgs, tkRet, tkCalls>>

ingestVars == <<blobs, items, settings, tokenizer, procs, hist>>

searchVars == <<sessionStore, search>>

vars == <<plannerVars, tokenVars, ingestVars, searchVars>>

----------------------------------------------------------------------------
(* Bounds *)

\* longest prompt handed to the middleware
MaxLen == 5

\* most messages appended by one step of an agentic run
MaxAppend == 2

\* longest content (in characters) handed to the token accounting
MaxChars == 4

\* most consecutive computePreviewMetadata calls on one content
MaxCalls == 3

\* most invocations of preprocessFile / preprocessLink in one behaviour
MaxIngestions == 3

\* most sessions in the stored session list
MaxSessions == 3

----------------------------------------------------------------------------
(* The parts of the state a specification does not exercise stay as loaded *)

TokensIdle ==
  /\ tkPc = "idle"
  /\ tkArgs = <<>>
  /\ tkRet = <<>>
  /\ tkCalls = <<>>

IngestIdle ==
  /\ blobs = <<>>
  /\ items = <<>>
  /\ settings = <<>>
  /\ tokenizer = "default"
  /\ procs = <<>>
  /\ hist = <<>>

SearchIdle ==
  /\ sessionStore = <<>>
  /\ search = <<>>

----------------------------------------------------------------------------
(* JavaScript object helpers *)

EmptyObj == [k \in {} |-> {}]

Has(o, k) == k \in DOMAIN o

\* { ...a, ...b }
Spread(a, b) ==
  [k \in (DOMAIN a) \cup (DOMAIN b) |-> IF k \in DOMAIN b THEN b[k] ELSE a[k]]

At(s, i) == s[i + 1]

SetAt(s, i, v) == [s EXCEPT ![i + 1] = v]

Max(S) == CHOOSE x \in S : \A y \in S : y <= x

----------------------------------------------------------------------------
(* Cache breakpoint planner *)

CACHE_CONTROL == [type |-> "ephemeral"]

Roles == {"system", "user", "assistant", "tool"}

\* msg.providerOptions ?? {}
ProviderOptionsOf(msg) ==
  IF Has(msg, "providerOptions") THEN msg.providerOptions ELSE EmptyObj

\* msg.providerOptions?.anthropic ?? {}
AnthropicOf(msg) ==
  IF Has(ProviderOptionsOf(msg), "anthropic")
  THEN ProviderOptionsOf(msg).anthropic
  ELSE EmptyObj

\* mutant: marking a message that carries the marker takes the marker off
WithCacheValueToggling(msg) ==
  Spread(msg,
    [providerOptions |->
       Spread(ProviderOptionsOf(msg),
         [anthropic |->
            IF Has(AnthropicOf(msg), "cacheControl")
            THEN [k \in (DOMAIN AnthropicOf(msg)) \ {"cacheControl"} |->
                    AnthropicOf(msg)[k]]
            ELSE Spread(AnthropicOf(msg), [cacheControl |-> CACHE_CONTROL])])])

\* the object literal withCache returns
WithCacheValue(msg) ==
  Spread(msg,
    [providerOptions |->
       Spread(ProviderOptionsOf(msg),
         [anthropic |->
            Spread(AnthropicOf(msg), [cacheControl |-> CACHE_CONTROL])])])

NewMsgRef(h) == Max(DOMAIN h.msg \cup {0}) + 1

NewArrRef(h) == Max(DOMAIN h.arr \cup {0}) + 1

AllocMsg(h, v) ==
  [h EXCEPT !.msg = [r \in DOMAIN h.msg \cup {NewMsgRef(h)} |->
                       IF r \in DOMAIN h.msg THEN h.msg[r] ELSE v]]

AllocArr(h, s) ==
  [h EXCEPT !.arr = [a \in DOMAIN h.arr \cup {NewArrRef(h)} |->
                       IF a \in DOMAIN h.arr THEN h.arr[a] ELSE s]]

\* mutant: the marker is written into the message object passed in
withCacheInPlace(h, m) ==
  [heap |-> [h EXCEPT !.msg[m] = WithCacheValue(h.msg[m])], ret |-> m]

\* withCache: returns a NEW message object; msg itself is not written
withCache(h, m) ==
  [heap |-> AllocMsg(h, WithCacheValue(h.msg[m])), ret |-> NewMsgRef(h)]

\* mutant: only the head of the prompt is looked at for the system message
FindSystemIndexHeadOnly(h, a) ==
  IF Len(h.arr[a]) > 0 /\ h.msg[At(h.arr[a], 0)].role = "system" THEN 0 ELSE -1

\* mutant: the last system message is found instead of the first
FindSystemIndexLast(h, a) ==
  LET s == h.arr[a]
      hits == {i \in 0..(Len(s) - 1) : h.msg[At(s, i)].role = "system"}
  IN  IF hits = {} THEN -1 ELSE CHOOSE i \in hits : \A j \in hits : i >= j

\* result.findIndex((m) => m.role === 'system')
FindSystemIndex(h, a) ==
  LET s == h.arr[a]
      hits == {i \in 0..(Len(s) - 1) : h.msg[At(s, i)].role = "system"}
  IN  IF hits = {} THEN -1 ELSE CHOOSE i \in hits : \A j \in hits : i <= j

\* result[idx] = withCache(result[idx])
MarkAt(h, a, idx) ==
  LET w == withCache(h, At(h.arr[a], idx))
  IN  [w.heap EXCEPT !.arr[a] = SetAt(w.heap.arr[a], idx, w.ret)]

\* mutant: the second breakpoint is already placed in a prompt of two messages
SecondBreakpointFromTwo(length) == length >= 2

\* result.length >= 3
SecondBreakpointApplies(length) == length >= 3

\* mutant: the last message is taken instead of the second-to-last
TargetIndexLast(length) == length - 1

\* mutant: the breakpoint stays on the second message of the prompt
TargetIndexSecond(length) == 1

\* const targetIdx = result.length - 2
TargetIndex(length) == length - 2

injectCacheControl(h, prompt) ==
  IF Len(h.arr[prompt]) = 0
  THEN [heap |-> h, ret |-> prompt]
  ELSE
    LET result == NewArrRef(h)
        h1 == AllocArr(h, h.arr[prompt])
        sysIdx == FindSystemIndex(h1, result)
        h2 == IF sysIdx # -1 THEN MarkAt(h1, result, sysIdx) ELSE h1
        targetIdx == TargetIndex(Len(h2.arr[result]))
        h3 == IF SecondBreakpointApplies(Len(h2.arr[result])) /\ targetIdx # sysIdx
              THEN MarkAt(h2, result, targetIdx)
              ELSE h2
    IN  [heap |-> h3, ret |-> result]

\* the messages an array holds, by value
Values(h, a) == [i \in 1..Len(h.arr[a]) |-> h.msg[h.arr[a][i]]]

\* a heap holding exactly the array `msgs` (array 1, messages 1..n)
HeapOf(msgs) ==
  [arr |-> [a \in {1} |-> [i \in 1..Len(msgs) |-> i]],
   msg |-> [r \in 1..Len(msgs) |-> msgs[r]]]

EmptyHeap == [arr |-> EmptyObj, msg |-> EmptyObj]

\* provider annotations a stored message may carry before the planner runs
FreshOptions == {"absent", "openai", "anthropic"}

StoredMessage(role, opt, id) ==
  IF opt = "absent" THEN [role |-> role, content |-> id]
  ELSE IF opt = "openai"
  THEN [role |-> role, content |-> id,
        providerOptions |-> [openai |-> [user |-> "u"]]]
  ELSE [role |-> role, content |-> id,
        providerOptions |-> [anthropic |-> [sendReasoning |-> TRUE]]]

\* roles of the messages of a stored conversation (tool messages enter a
\* prompt through the steps of the agentic loop, see Appended)
StoredRoles == Roles \ {"tool"}

\* prompts rebuilt from stored messages: no message carries a cache marker;
\* the caller attaches the same kind of provider annotation to every message
FreshPrompts ==
  UNION {
    { [i \in 1..n |-> StoredMessage(f[i], opt, i)] :
        f \in [1..n -> StoredRoles], opt \in FreshOptions } :
    n \in 0..MaxLen }

\* what one step of the agentic loop appends: tool calls and tool results
Appended(base) ==
  UNION {
    { [i \in 1..k |-> StoredMessage(f[i], "absent", base + i)] :
        f \in [1..k -> {"assistant", "tool"}] } :
    k \in 1..MaxAppend }

\* the message carries providerOptions.anthropic.cacheControl
Marked(msg) ==
  /\ Has(AnthropicOf(msg), "cacheControl")
  /\ AnthropicOf(msg).cacheControl = CACHE_CONTROL

MarkedIdx(msgs) == {i \in 0..(Len(msgs) - 1) : Marked(At(msgs, i))}

Unmarked(msgs) == MarkedIdx(msgs) = {}

\* the caller hands a prompt to the wrapped model
Call(msgs, how) ==
  /\ heap' = HeapOf(msgs)
  /\ promptRef' = 1
  /\ resultRef' = 0
  /\ pc' = "ready"
  /\ origin' = how
  /\ given' = msgs
  /\ UNCHANGED <<sent, prevSent, first>>
  /\ UNCHANGED <<tokenVars, ingestVars, searchVars>>

\* first call of a run: the prompt built from the stored conversation
Invoke ==
  /\ pc = "idle"
  /\ \E p \in FreshPrompts : Call(p, "fresh")

\* the transformed params reach the provider; the caller keeps its records
Deliver(r) ==
  /\ heap' = r.heap
  /\ resultRef' = r.ret
  /\ sent' = Values(r.heap, r.ret)
  /\ prevSent' = sent
  /\ first' = IF origin = "fresh"
              THEN [in |-> given, out |-> Values(r.heap, r.ret)]
              ELSE first
  /\ pc' = "sent"
  /\ UNCHANGED <<promptRef, origin, given>>
  /\ UNCHANGED <<tokenVars, ingestVars, searchVars>>

\* mutant: a planner that remembers what it sent and leaves a prompt alone
\* when the previous call already sent a marked prompt
transformParamsRemembering ==
  /\ pc = "ready"
  /\ Deliver(IF Unmarked(sent)
             THEN injectCacheControl(heap, promptRef)
             ELSE [heap |-> heap, ret |-> promptRef])

\* anthropicCacheMiddleware.transformParams
transformParams ==
  /\ pc = "ready"
  /\ Deliver(injectCacheControl(heap, promptRef))

\* next step of the run: the prompt is rebuilt from the stored messages plus
\* the messages the step produced
StepRebuilt ==
  /\ pc = "sent"
  /\ \E more \in Appended(Len(given)) :
       /\ Len(given) + Len(more) <= MaxLen
       /\ Call(given \o more, "rebuilt")

\* next step of the run, with a caller that appends to the transformed prompt
StepFedBack ==
  /\ pc = "sent"
  /\ \E more \in Appended(Len(sent)) :
       /\ Len(sent) + Len(more) <= MaxLen
       /\ Call(sent \o more, "fedback")

\* the same step is issued again with an equal prompt
Retry ==
  /\ pc = "sent"
  /\ Call(given, "retry")

\* the first step of the run is issued again after other prompts went through
Replay ==
  /\ pc = "sent"
  /\ given # first.in
  /\ Call(first.in, "replay")

PlannerIdle ==
  /\ heap = EmptyHeap
  /\ promptRef = 0
  /\ resultRef = 0
  /\ pc = "idle"
  /\ origin = "none"
  /\ given = <<>>
  /\ sent = <<>>
  /\ prevSent = <<>>
  /\ first = <<>>

InitPlanner == PlannerIdle /\ TokensIdle /\ IngestIdle /\ SearchIdle

NextPlanner ==
  \/ Invoke
  \/ transformParams
  \/ StepRebuilt
  \/ StepFedBack
  \/ Retry
  \/ Replay

SpecPlanner == InitPlanner /\ [][NextPlanner]_vars

\* the transformed prompt is handed to the wrapped model once more, as it is:
\* the planner runs on its own output
Resend ==
  /\ pc = "sent"
  /\ Call(sent, "resent")

\* a run in which prompts come back to the planner: fed back with appended
\* messages, or exactly as the planner returned them
NextResend ==
  \/ Invoke
  \/ transformParams
  \/ StepFedBack
  \/ Resend

SpecResend == InitPlanner /\ [][NextResend]_vars

----------------------------------------------------------------------------
(* Token accounting cache *)

\* Strings are sequences of characters.  "E" stands for a character whose
\* UTF-8 encoding takes two bytes (such as an accented letter).
NL == "\n"

Chars == {"a", "E", NL}

\* mutant: the length in UTF-16 code units, as content.length gives it
Utf8BytesOne(c) == 1

Utf8Bytes(c) == IF c = "E" THEN 2 ELSE 1

RECURSIVE Utf8Length(_)
\* new TextEncoder().encode(content).length
Utf8Length(str) ==
  IF str = <<>> THEN 0 ELSE Utf8Bytes(Head(str)) + Utf8Length(Tail(str))

RECURSIVE Split(_)
\* content.split('\n')
Split(str) ==
  IF \A i \in 1..Len(str) : str[i] # NL
  THEN <<str>>
  ELSE LET i == CHOOSE j \in 1..Len(str) :
                  str[j] = NL /\ \A k \in 1..(j - 1) : str[k] # NL
       IN  <<SubSeq(str, 1, i - 1)>> \o Split(SubSeq(str, i + 1, Len(str)))

RECURSIVE Join(_)
\* lines.join('\n')
Join(lines) ==
  IF lines = <<>> THEN <<>>
  ELSE IF Len(lines) = 1 THEN lines[1]
  ELSE lines[1] \o <<NL>> \o Join(Tail(lines))

\* mutant: the preview keeps one line more than the limit
Slice0Through(lines, n) ==
  SubSeq(lines, 1, IF n + 1 < Len(lines) THEN n + 1 ELSE Len(lines))

\* lines.slice(0, n)
Slice0(lines, n) == SubSeq(lines, 1, IF n < Len(lines) THEN n ELSE Len(lines))

\* number of preview lines shared with the preview renderer (scaled down)
PREVIEW_LINES == 2

TokenizerTypes == {"default", "deepseek"}

\* `${tokenizerType}_preview`
PreviewKey(tokenizerType) ==
  IF tokenizerType = "default" THEN "default_preview" ELSE "deepseek_preview"

SlotKeys == TokenizerTypes \cup {PreviewKey(t) : t \in TokenizerTypes}

\* estimateTokens(content, selector): a deterministic count that differs
\* between the two tokenizer families
estimateTokens(content, tokenizerType) ==
  IF tokenizerType = "deepseek" THEN 2 * Len(content) ELSE Len(content)

\* mutant: the full-content slot is computed on every call
SlotUndefinedAlways(map, key) == TRUE

\* tokenCountMap[key] === undefined
SlotUndefined(map, key) == ~Has(map, key)

\* computePreviewMetadata; estimateCalls lists the estimateTokens invocations
\* it makes, each with the slot it computes and the text it is given
computePreviewMetadata(content, tokenizerType, existingTokenMap, now) ==
  LET lineCount == Len(Split(content))
      byteLength == Utf8Length(content)
      previewContent == Join(Slice0(Split(content), PREVIEW_LINES))
      fullKey == tokenizerType
      previewKey == PreviewKey(tokenizerType)
      computeFull == SlotUndefined(existingTokenMap, fullKey)
      map1 == IF computeFull
              THEN Spread(existingTokenMap,
                          fullKey :> estimateTokens(content, tokenizerType))
              ELSE existingTokenMap
      at1 == IF computeFull THEN fullKey :> now ELSE EmptyObj
      fullCalls == IF computeFull
                   THEN <<[slot |-> fullKey, text |-> content]>>
                   ELSE <<>>
  IN  [lineCount |-> lineCount,
       byteLength |-> byteLength,
       tokenCountMap |->
         Spread(map1, previewKey :> estimateTokens(previewContent, tokenizerType)),
       tokenCalculatedAt |-> Spread(at1, previewKey :> now),
       estimateCalls |->
         fullCalls \o <<[slot |-> previewKey, text |-> previewContent]>>]

Contents == UNION {[1..n -> Chars] : n \in 0..MaxChars}

\* a count no tokenizer returns for a content of the model: a stored slot
\* that is recomputed changes its value
StaleCount(key) ==
  IF key = "default" THEN 91
  ELSE IF key = "deepseek" THEN 92
  ELSE IF key = "default_preview" THEN 93 ELSE 94

\* token maps stored by earlier calls, under any subset of the slots
ExistingMaps == {[k \in S |-> StaleCount(k)] : S \in SUBSET SlotKeys}

Account(content, tokenizerType, existingTokenMap, now) ==
  LET r == computePreviewMetadata(content, tokenizerType, existingTokenMap, now)
  IN  /\ tkArgs' = [content |-> content, tokenizerType |-> tokenizerType,
                    existingTokenMap |-> existingTokenMap, now |-> now]
      /\ tkRet' = [lineCount |-> r.lineCount, byteLength |-> r.byteLength,
                   tokenCountMap |-> r.tokenCountMap,
                   tokenCalculatedAt |-> r.tokenCalculatedAt]
      /\ tkCalls' = r.estimateCalls
      /\ tkPc' = "done"
      /\ UNCHANGED <<plannerVars, ingestVars, searchVars>>

\* a first call on some content, with whatever map the store held for it
AccountFirst ==
  /\ tkPc = "idle"
  /\ \E c \in Contents, t \in TokenizerTypes, m \in ExistingMaps :
       Account(c, t, m, 1)

\* a later call on the same content with the map the previous call returned,
\* under the tokenizer current at that time
AccountAgain ==
  /\ tkPc = "done"
  /\ tkArgs.now < MaxCalls
  /\ \E t \in TokenizerTypes :
       Account(tkArgs.content, t, tkRet.tokenCountMap, tkArgs.now + 1)

InitTokens == PlannerIdle /\ TokensIdle /\ IngestIdle /\ SearchIdle

NextTokens ==
  \/ AccountFirst
  \/ AccountAgain

SpecTokens == InitTokens /\ [][NextTokens]_vars

----------------------------------------------------------------------------
(* Content ingestion pipeline: preprocessFile, preprocessLink *)

\* One source (a file or a link) is ingested, again and again, by the tasks of
\* Tasks.  Every await on the content store is a step of its own: a step runs
\* the synchronous code that follows the previous await and ends with the
\* effect of the next store operation (or backend call), so that the steps of
\* two tasks interleave at the awaits.  The blob a backend leaves under its own
\* temporary key is read back in the step of the backend call; it is not shared
\* between tasks.  Every store operation, backend call and computation of a
\* step can fail: it then throws one of the values of Thrown.

Tasks == {1, 2}

\* StorageKeyGenerator.fileUniqKey(file), StorageKeyGenerator.linkUniqKey(url)
UniqKey == IF settings.kind = "link" THEN "link-uniq-key" ELSE "file-uniq-key"

\* `${uniqKey}_tokenMap`
TokenMapKey(key) == <<key, "_tokenMap">>

\* storage.getBlob(key), null when nothing is stored
GetBlob(key) == IF key \in DOMAIN blobs THEN blobs[key] ELSE <<>>

\* storage.getItem(key, {})
GetItem(key) == IF key \in DOMAIN items THEN items[key] ELSE EmptyObj

\* storage.setBlob / storage.setItem
Put(store, key, value) == Spread(store, key :> value)

\* new Error(message)
Err(message) == [isError |-> TRUE, message |-> message]

\* what a rejected store operation or a throwing collaborator hands to the
\* catch: an Error with its message, or a value that is no Error
Thrown == {Err("quota exceeded"), [isError |-> FALSE, message |-> "rejected"]}

\* what the MinerU platform call can throw: as Thrown, and an Error whose own
\* message begins like the names of the pipeline
MineruThrown == Thrown \cup {Err("third_party_parser_timeout")}

\* error instanceof Error ? error.message : 'Unknown error'
CatchMessage(e) == IF e.isError THEN e.message ELSE "Unknown error"

\* contents a parse of the source can end with: three lines, or nothing (an
\* empty source, or a parsed blob that cannot be read back:
\* getBlob(key).catch(() => '') || '')
ParseOutputs == {<<>>, <<"a", NL, "E", NL, "a">>}

ParserTypes == {"none", "local", "chatbox-ai", "mineru", "unknown"}

\* a file (text-typed or not) with getEffectiveDocumentParserConfig() and
\* whether the platform offers parseFileWithMineru; the MinerU token and the
\* platform's MinerU support are read on the MinerU path only and are left
\* FALSE elsewhere
FileSettings ==
  {s \in [kind : {"file"}, isText : BOOLEAN, type : ParserTypes,
          apiToken : BOOLEAN, hasMineru : BOOLEAN, isPro : {FALSE}] :
     (s.isText \/ s.type # "mineru") => (~s.apiToken /\ ~s.hasMineru)}

\* a link with settingActions.isPro()
LinkSettings ==
  [kind : {"link"}, isText : {FALSE}, type : {"none"},
   apiToken : {FALSE}, hasMineru : {FALSE}, isPro : BOOLEAN]

SettingsChoices == FileSettings \cup LinkSettings

\* what a backend call can end with
FetchOutcomes == {[kind |-> "ok", content |-> c] : c \in ParseOutputs}

LocalOutcomes ==
  {[kind |-> "throws", content |-> <<>>], [kind |-> "unsupported", content |-> <<>>]}
    \cup FetchOutcomes

\* the cloud parser can answer a later upload of the same file with another
\* content: the service normalises differently by then
ChangedOutput == <<"a">>

RemoteOutcomes == FetchOutcomes \cup {[kind |-> "ok", content |-> ChangedOutput]}

CloudOutcomes == {[kind |-> "throws", content |-> <<>>]} \cup RemoteOutcomes

MineruOutcomes ==
  {[kind |-> "cancelled", content |-> <<>>], [kind |-> "failed", content |-> <<>>]}
    \cup {[kind |-> "ok", content |-> c] : c \in ParseOutputs}

\* mutant: the deepseek slot is counted without the deepseek model
BackendTokenMapOneTokenizer(content) ==
  [k \in TokenizerTypes |-> estimateTokens(content, "default")]

\* the token map the three file backends store: both tokenizers, no preview
BackendTokenMap(content) ==
  [k \in TokenizerTypes |-> estimateTokens(content, k)]

\* the locals of one invocation, and what it did; path: "hit" or "miss" once
\* the cache has answered; fault: an operation of the invocation failed
IdleTask ==
  [pc |-> "idle", late |-> FALSE, path |-> "none", tokenizerType |-> "none",
   existingContent |-> <<>>,
   existingTokenMap |-> EmptyObj, content |-> <<>>, tokenCountMap |-> EmptyObj,
   backend |-> "none", outcome |-> "none", parserCalls |-> 0,
   blobWrites |-> 0, itemWrites |-> 0, fault |-> FALSE, out |-> EmptyObj]

\* the invocation is over: its locals are gone, what it returned and what it
\* did stay on record
Finished(t, out) ==
  [t EXCEPT !.pc = "done", !.out = out, !.existingContent = <<>>,
            !.existingTokenMap = EmptyObj, !.content = <<>>,
            !.tokenCountMap = EmptyObj]

\* a step of a task leaves the settings, the model and the rest alone
TaskFrame == UNCHANGED <<settings, tokenizer, plannerVars, tokenVars, searchVars>>

\* the catch of preprocessFile / preprocessLink: the error is turned into a result
ErrorResult(message) ==
  [content |-> <<>>, storageKey |-> "", error |-> message]

\* throw new Error(message) in preprocessFile itself
Fail(p, message) ==
  /\ procs' = [procs EXCEPT ![p] = Finished(@, ErrorResult(message))]
  /\ UNCHANGED <<blobs, items, hist>>

\* an operation of preprocessFile / preprocessLink itself throws e
Throw(p, e) ==
  /\ procs' = [procs EXCEPT ![p] =
       Finished([@ EXCEPT !.fault = TRUE], ErrorResult(CatchMessage(e)))]
  /\ UNCHANGED <<blobs, items, hist>>

\* error.message.startsWith('third_party_parser')
StartsWithThirdPartyParser(message) ==
  /\ Len(message) >= Len("third_party_parser")
  /\ SubSeq(message, 1, Len("third_party_parser")) = "third_party_parser"

\* the catch around parseFileWithMineruService: what it throws on
MineruError(e) ==
  IF e.isError /\ StartsWithThirdPartyParser(e.message)
  THEN e
  ELSE Err("third_party_parser_failed")

\* what the catch around the parse function of the backend throws on; the
\* link backends are called in preprocessLink itself
InnerCatch(backend, e) ==
  IF backend = "local" THEN Err("local_parser_failed")
  ELSE IF backend = "chatbox-ai" THEN Err("chatbox_ai_parser_failed")
  ELSE IF backend = "mineru" THEN MineruError(e)
  ELSE e

\* mutant: the parser configuration decides for text files too
BackendByConfigOnly ==
  IF settings.kind = "link"
  THEN IF settings.isPro THEN "link-pro" ELSE "link-local"
  ELSE IF settings.type = "local" THEN "local"
  ELSE IF settings.type = "chatbox-ai" THEN "chatbox-ai"
  ELSE IF settings.type = "mineru" THEN "mineru"
  ELSE "none"

\* which backend the miss path calls, or "none" when it throws before any call
Backend ==
  IF settings.kind = "link"
  THEN IF settings.isPro THEN "link-pro" ELSE "link-local"
  ELSE IF settings.isText THEN "local"
  ELSE IF settings.type = "local" THEN "local"
  ELSE IF settings.type = "chatbox-ai" THEN "chatbox-ai"
  ELSE IF settings.type = "mineru" THEN "mineru"
  ELSE "none"

\* mutant: the parser configuration is checked before the cache is asked
StartConfigurationFirst(p) ==
  /\ TaskFrame
  /\ procs[p].pc \in {"idle", "done"}
  /\ \A q \in Tasks : q < p => procs[q].pc # "idle"
  /\ hist.started < MaxIngestions
  /\ hist' = [hist EXCEPT !.started = @ + 1]
  /\ UNCHANGED <<blobs, items>>
  /\ IF Backend = "none"
     THEN procs' = [procs EXCEPT ![p] =
            [IdleTask EXCEPT !.pc = "done", !.late = hist.succeeded,
                             !.path = "miss",
                             !.out = ErrorResult("document_parser_not_configured")]]
     ELSE \/ \E e \in Thrown :
               procs' = [procs EXCEPT ![p] =
                 [IdleTask EXCEPT !.pc = "done", !.late = hist.succeeded,
                                  !.fault = TRUE,
                                  !.out = ErrorResult(CatchMessage(e))]]
          \/ \E rejected \in (IF GetBlob(UniqKey) = <<>> THEN {FALSE} ELSE BOOLEAN) :
               LET existingContent == IF rejected THEN <<>> ELSE GetBlob(UniqKey)
               IN  procs' = [procs EXCEPT ![p] =
                     [IdleTask EXCEPT
                        !.pc = IF existingContent # <<>> THEN "hit" ELSE "miss",
                        !.path = IF existingContent # <<>> THEN "hit" ELSE "miss",
                        !.late = hist.succeeded,
                        !.fault = rejected,
                        !.existingContent = existingContent]]

\* the function is called: the key is derived and storage.getBlob(uniqKey)
\* answers; a rejected read is taken for a miss: .catch(() => null), which
\* makes a difference when a blob is stored.  The tasks are alike: the one
\* with the smaller number is the first to call.
Start(p) ==
  /\ TaskFrame
  /\ procs[p].pc \in {"idle", "done"}
  /\ \A q \in Tasks : q < p => procs[q].pc # "idle"
  /\ hist.started < MaxIngestions
  /\ hist' = [hist EXCEPT !.started = @ + 1]
  /\ UNCHANGED <<blobs, items>>
  /\ \/ \E e \in Thrown :
          procs' = [procs EXCEPT ![p] =
            [IdleTask EXCEPT !.pc = "done", !.late = hist.succeeded,
                             !.fault = TRUE,
                             !.out = ErrorResult(CatchMessage(e))]]
     \/ \E rejected \in (IF GetBlob(UniqKey) = <<>> THEN {FALSE} ELSE BOOLEAN) :
          LET existingContent == IF rejected THEN <<>> ELSE GetBlob(UniqKey)
          IN  procs' = [procs EXCEPT ![p] =
                [IdleTask EXCEPT
                   !.pc = IF existingContent # <<>> THEN "hit" ELSE "miss",
                   !.path = IF existingContent # <<>> THEN "hit" ELSE "miss",
                   !.late = hist.succeeded,
                   !.fault = rejected,
                   !.existingContent = existingContent]]

\* cache hit: storage.getItem(`${uniqKey}_tokenMap`, {}) answers
HitGetTokenMap(p) ==
  /\ TaskFrame
  /\ procs[p].pc = "hit"
  /\ \/ /\ procs' = [procs EXCEPT ![p].pc = "hitWrite",
                        ![p].existingTokenMap = GetItem(TokenMapKey(UniqKey))]
        /\ UNCHANGED <<blobs, items, hist>>
     \/ \E e \in Thrown : Throw(p, e)

\* the result returned without error
Success(content, storageKey, meta) ==
  [content |-> content, storageKey |-> storageKey,
   tokenCountMap |-> meta.tokenCountMap,
   lineCount |-> meta.lineCount, byteLength |-> meta.byteLength]

\* mutant: on a hit the token map is computed afresh, without the stored one
HitSetTokenMapAfresh(p) ==
  /\ TaskFrame
  /\ procs[p].pc = "hitWrite"
  /\ \/ LET meta == computePreviewMetadata(procs[p].existingContent, tokenizer,
                                           EmptyObj, 0)
        IN  /\ items' = Put(items, TokenMapKey(UniqKey), meta.tokenCountMap)
            /\ procs' = [procs EXCEPT
                 ![p].pc = "return",
                 ![p].itemWrites = @ + 1,
                 ![p].tokenizerType = tokenizer,
                 ![p].out = Success(procs[p].existingContent, UniqKey, meta)]
            /\ UNCHANGED <<blobs, hist>>
     \/ \E e \in Thrown : Throw(p, e)

\* cache hit: the map is extended for the current tokenizer and written back
HitSetTokenMap(p) ==
  /\ TaskFrame
  /\ procs[p].pc = "hitWrite"
  /\ \/ LET meta == computePreviewMetadata(procs[p].existingContent, tokenizer,
                                           procs[p].existingTokenMap, 0)
        IN  /\ items' = Put(items, TokenMapKey(UniqKey), meta.tokenCountMap)
            /\ procs' = [procs EXCEPT
                 ![p].pc = "return",
                 ![p].itemWrites = @ + 1,
                 ![p].tokenizerType = tokenizer,
                 ![p].out = Success(procs[p].existingContent, UniqKey, meta)]
            /\ UNCHANGED <<blobs, hist>>
     \/ \E e \in Thrown : Throw(p, e)

\* the backend answered with a content: the parse goes on
Parsed(p, backend, o) ==
  /\ procs' = [procs EXCEPT ![p].pc = "parsed", ![p].backend = backend,
                            ![p].outcome = o.kind,
                            ![p].content = o.content,
                            ![p].parserCalls = @ + 1]
  /\ UNCHANGED <<blobs, items, hist>>

\* the backend call failed: the catch around it throws e on
BackendFailed(p, backend, kind, e) ==
  /\ procs' = [procs EXCEPT ![p] =
       Finished([@ EXCEPT !.backend = backend, !.outcome = kind,
                          !.fault = TRUE, !.parserCalls = @ + 1],
                ErrorResult(CatchMessage(e)))]
  /\ UNCHANGED <<blobs, items, hist>>

\* mutant: a missing MinerU token is found out by the backend call only
UnconfiguredTokenUnchecked(p) ==
  /\ TaskFrame
  /\ procs[p].pc = "miss"
  /\ \/ /\ Backend = "none"
        /\ Fail(p, "document_parser_not_configured")
     \/ /\ Backend = "mineru" /\ ~settings.apiToken
        /\ \E e \in MineruThrown :
             BackendFailed(p, "mineru", "throws", MineruError(e))
     \/ /\ Backend = "mineru" /\ settings.apiToken /\ ~settings.hasMineru
        /\ Fail(p, CatchMessage(MineruError(Err("third_party_parser_not_supported_in_chat"))))

\* cache miss with nothing to call: the configuration errors
Unconfigured(p) ==
  /\ TaskFrame
  /\ procs[p].pc = "miss"
  /\ \/ /\ Backend = "none"
        /\ Fail(p, "document_parser_not_configured")
     \/ /\ Backend = "mineru" /\ ~settings.apiToken
        /\ Fail(p, "mineru_api_token_required")
     \/ /\ Backend = "mineru" /\ settings.apiToken /\ ~settings.hasMineru
        /\ Fail(p, CatchMessage(MineruError(Err("third_party_parser_not_supported_in_chat"))))

\* parseFileWithLocalParser up to the read of the parsed blob
LocalParse(p) ==
  /\ TaskFrame
  /\ procs[p].pc = "miss"
  /\ Backend = "local"
  /\ \E o \in LocalOutcomes :
       IF o.kind = "ok"
       THEN Parsed(p, "local", o)
       ELSE IF o.kind = "unsupported"
       THEN BackendFailed(p, "local", o.kind,
                          InnerCatch("local", Err("local_parser_failed")))
       ELSE \E e \in Thrown :
              BackendFailed(p, "local", o.kind, InnerCatch("local", e))

\* parseFileWithChatboxAI up to the read of the uploaded blob
CloudParse(p) ==
  /\ TaskFrame
  /\ procs[p].pc = "miss"
  /\ Backend = "chatbox-ai"
  /\ \E o \in CloudOutcomes :
       IF o.kind = "ok"
       THEN Parsed(p, "chatbox-ai", o)
       ELSE \E e \in Thrown :
              BackendFailed(p, "chatbox-ai", o.kind, InnerCatch("chatbox-ai", e))

\* parseFileWithMineruService up to the checks of the result
MineruParse(p) ==
  /\ TaskFrame
  /\ procs[p].pc = "miss"
  /\ Backend = "mineru" /\ settings.apiToken /\ settings.hasMineru
  /\ \/ \E o \in MineruOutcomes :
          IF o.kind = "cancelled"
          THEN BackendFailed(p, "mineru", "cancelled",
                             MineruError(Err("parsing_cancelled")))
          ELSE IF o.kind = "ok" /\ o.content # <<>>
          THEN Parsed(p, "mineru", o)
          ELSE BackendFailed(p, "mineru", "failed",
                             MineruError(Err("third_party_parser_failed")))
     \/ \E e \in MineruThrown :
          BackendFailed(p, "mineru", "throws", MineruError(e))

\* the result of preprocessLink for a link without content
EmptyLinkResult ==
  [content |-> <<>>, storageKey |-> UniqKey, tokenCountMap |-> EmptyObj]

\* preprocessLink on a miss: remote.parseUserLinkPro or localParser.parseUrl,
\* up to the read of the parsed blob; without content nothing is awaited any
\* more and the result is returned
LinkParse(p) ==
  /\ TaskFrame
  /\ procs[p].pc = "miss"
  /\ Backend \in {"link-pro", "link-local"}
  /\ \/ \E o \in FetchOutcomes :
          IF o.content # <<>>
          THEN Parsed(p, Backend, o)
          ELSE /\ procs' = [procs EXCEPT ![p].pc = "return",
                                         ![p].backend = Backend,
                                         ![p].outcome = o.kind,
                                         ![p].parserCalls = @ + 1,
                                         ![p].out = EmptyLinkResult]
               /\ UNCHANGED <<blobs, items, hist>>
     \/ \E e \in Thrown :
          BackendFailed(p, Backend, "throws", InnerCatch(Backend, e))

\* if (content) await storage.setBlob(uniqKey, content)
\* (parseFileWithMineruService has checked the content before)
InnerSetBlob(p) ==
  /\ TaskFrame
  /\ procs[p].pc = "parsed"
  /\ procs[p].content # <<>>
  /\ \/ /\ blobs' = Put(blobs, UniqKey, procs[p].content)
        /\ procs' = [procs EXCEPT ![p].pc = "innerMap", ![p].blobWrites = @ + 1]
        /\ UNCHANGED <<items, hist>>
     \/ \E e \in Thrown : Throw(p, InnerCatch(procs[p].backend, e))

\* the token counts of the parse function and
\* if (content) await storage.setItem(`${uniqKey}_tokenMap`, tokenCountMap)
InnerSetTokenMap(p) ==
  /\ TaskFrame
  /\ procs[p].pc = "innerMap"
  /\ settings.kind = "file"
  /\ \/ /\ items' = Put(items, TokenMapKey(UniqKey),
                        BackendTokenMap(procs[p].content))
        /\ procs' = [procs EXCEPT
             ![p].pc = "outer",
             ![p].itemWrites = @ + 1,
             ![p].tokenCountMap = BackendTokenMap(procs[p].content)]
        /\ UNCHANGED <<blobs, hist>>
     \/ \E e \in Thrown : Throw(p, InnerCatch(procs[p].backend, e))

\* preprocessLink: computePreviewMetadata(content, tokenizerType) and
\* if (content) await storage.setItem(`${uniqKey}_tokenMap`, tokenCountMap)
LinkSetTokenMap(p) ==
  /\ TaskFrame
  /\ procs[p].pc = "innerMap"
  /\ settings.kind = "link"
  /\ \/ LET meta == computePreviewMetadata(procs[p].content, tokenizer,
                                           EmptyObj, 0)
        IN  /\ items' = Put(items, TokenMapKey(UniqKey), meta.tokenCountMap)
            /\ procs' = [procs EXCEPT
                 ![p].pc = "return",
                 ![p].itemWrites = @ + 1,
                 ![p].tokenizerType = tokenizer,
                 ![p].out = Success(procs[p].content, UniqKey, meta)]
            /\ UNCHANGED <<blobs, hist>>
     \/ \E e \in Thrown : Throw(p, e)

\* back in preprocessFile: the preview metadata is computed and
\* storage.setItem(`${result.storageKey}_tokenMap`, tokenCountMap) is awaited;
\* with an empty content the parse function wrote nothing and returned {}
OuterSetTokenMap(p) ==
  /\ TaskFrame
  /\ settings.kind = "file"
  /\ \/ procs[p].pc = "outer"
     \/ procs[p].pc = "parsed" /\ procs[p].content = <<>>
  /\ \/ LET meta == computePreviewMetadata(procs[p].content, tokenizer,
                                           procs[p].tokenCountMap, 0)
        IN  /\ items' = Put(items, TokenMapKey(UniqKey), meta.tokenCountMap)
            /\ procs' = [procs EXCEPT
                 ![p].pc = "return",
                 ![p].itemWrites = @ + 1,
                 ![p].tokenizerType = tokenizer,
                 ![p].out = Success(procs[p].content, UniqKey, meta)]
            /\ UNCHANGED <<blobs, hist>>
     \/ \E e \in Thrown : Throw(p, e)

\* the last await is over: the result is returned
Return(p) ==
  /\ TaskFrame
  /\ procs[p].pc = "return"
  /\ procs' = [procs EXCEPT ![p] = Finished(@, @.out)]
  /\ hist' = [hist EXCEPT !.succeeded = TRUE]
  /\ UNCHANGED <<blobs, items>>

\* the user talks to a model of the other tokenizer family
SwitchModel ==
  /\ tokenizer' = IF tokenizer = "default" THEN "deepseek" ELSE "default"
  /\ UNCHANGED <<blobs, items, settings, procs, hist>>
  /\ UNCHANGED <<plannerVars, tokenVars, searchVars>>

\* nothing is stored yet, and no task has called the function
InitIngest ==
  /\ PlannerIdle /\ TokensIdle /\ SearchIdle
  /\ blobs = EmptyObj
  /\ items = EmptyObj
  /\ settings \in SettingsChoices
  /\ tokenizer \in TokenizerTypes
  /\ procs = [p \in Tasks |-> IdleTask]
  /\ hist = [started |-> 0, succeeded |-> FALSE]

NextIngest ==
  \/ \E p \in Tasks : Start(p)
  \/ \E p \in Tasks : HitGetTokenMap(p)
  \/ \E p \in Tasks : HitSetTokenMap(p)
  \/ \E p \in Tasks : Unconfigured(p)
  \/ \E p \in Tasks : LocalParse(p)
  \/ \E p \in Tasks : CloudParse(p)
  \/ \E p \in Tasks : MineruParse(p)
  \/ \E p \in Tasks : LinkParse(p)
  \/ \E p \in Tasks : InnerSetBlob(p)
  \/ \E p \in Tasks : InnerSetTokenMap(p)
  \/ \E p \in Tasks : LinkSetTokenMap(p)
  \/ \E p \in Tasks : OuterSetTokenMap(p)
  \/ \E p \in Tasks : Return(p)
  \/ SwitchModel

SpecIngest == InitIngest /\ [][NextIngest]_vars

\* Between two invocations the user picks another document parser, enters or
\* removes the MinerU token, or gains or loses the entitlement; the source,
\* and so its key, stays the same.
Reconfigure ==
  /\ \A p \in Tasks : procs[p].pc \in {"idle", "done"}
  /\ \E s \in SettingsChoices :
       /\ s.kind = settings.kind /\ s.isText = settings.isText
       /\ s # settings
       /\ settings' = s
  /\ UNCHANGED <<blobs, items, tokenizer, procs, hist>>
  /\ UNCHANGED <<plannerVars, tokenVars, searchVars>>

\* One invocation at a time, under a configuration that changes between the
\* invocations.
NextReingest ==
  \/ Start(1)
  \/ HitGetTokenMap(1)
  \/ HitSetTokenMap(1)
  \/ Unconfigured(1)
  \/ LocalParse(1)
  \/ CloudParse(1)
  \/ MineruParse(1)
  \/ LinkParse(1)
  \/ InnerSetBlob(1)
  \/ InnerSetTokenMap(1)
  \/ LinkSetTokenMap(1)
  \/ OuterSetTokenMap(1)
  \/ Return(1)
  \/ SwitchModel
  \/ Reconfigure

SpecReingest == InitIngest /\ [][NextReingest]_vars

----------------------------------------------------------------------------
(* Session search: searchSessions *)

\* Texts are sequences of characters.  The alphabet has two letters in both
\* cases and one character that is a metacharacter of regular expressions.
SearchChars == {"a", "A", "b", "B", "."}

\* the characters searchSessions escapes that occur in the alphabet:
\* /[-[\]{}()*+?.,\\^$|#\s]/
EscapedChars == {"."}

BACKSLASH == "\\"

RECURSIVE EscapeFrom(_)
\* every escaped character of the string gets a backslash in front: '\\$&'
EscapeFrom(str) ==
  IF str = <<>> THEN <<>>
  ELSE (IF Head(str) \in EscapedChars THEN <<BACKSLASH, Head(str)>>
        ELSE <<Head(str)>>) \o EscapeFrom(Tail(str))

\* mutant: the query is compiled as it is
EscapeNothing(str) == str

\* searchInput.replace(/[-[\]{}()*+?.,\\^$|#\s]/g, '\\$&')
Escape(str) == EscapeFrom(str)

RECURSIVE Compile(_)
\* new RegExp(source, 'i'): the atoms of the pattern; a backslash makes the
\* next character a literal, a bare dot matches any character but a newline
Compile(source) ==
  IF source = <<>> THEN <<>>
  ELSE IF Head(source) = BACKSLASH /\ Len(source) >= 2
  THEN <<[kind |-> "literal", char |-> source[2]]>> \o Compile(Tail(Tail(source)))
  ELSE IF Head(source) = "."
  THEN <<[kind |-> "any", char |-> "."]>> \o Compile(Tail(source))
  ELSE <<[kind |-> "literal", char |-> Head(source)]>> \o Compile(Tail(source))

\* the canonical form the 'i' flag compares characters in
Fold(c) == IF c = "A" THEN "a" ELSE IF c = "B" THEN "b" ELSE c

AtomMatches(atom, c) ==
  IF atom.kind = "any" THEN c # NL ELSE Fold(atom.char) = Fold(c)

\* regexp.test(text): the pattern matches somewhere in the text
Test(regexp, text) ==
  \E start \in 0..(Len(text) - Len(regexp)) :
    \A i \in 1..Len(regexp) : AtomMatches(regexp[i], text[start + i])

\* getMessageText(message)
getMessageText(message) == message.text

\* migrateMessage(m): the message in the current schema
migrateMessage(m) == [m EXCEPT !.schema = "current"]

\* migrateSession(s): the session with its messages in the current schema
migrateSession(s) ==
  LET migrated(msgs) == [i \in 1..Len(msgs) |-> migrateMessage(msgs[i])]
  IN  IF Has(s, "threads")
      THEN [s EXCEPT !.messages = migrated(@),
                     !.threads = [t \in 1..Len(@) |->
                                    [@[t] EXCEPT !.messages = migrated(@)]]]
      ELSE [s EXCEPT !.messages = migrated(@)]

\* the elements of a list from the last to the first
Reverse(list) == [i \in 1..Len(list) |-> list[Len(list) + 1 - i]]

\* sortSessions(list): most recently used first
sortSessions(list) == Reverse(list)

\* mutant: the list is scanned from the first message to the last
MatchesOfForward(regexp, msgs) ==
  SelectSeq(msgs, LAMBDA m : Test(regexp, getMessageText(m)))

\* the messages of msgs the pattern matches, from the last to the first
MatchesOf(regexp, msgs) ==
  SelectSeq(Reverse(msgs), LAMBDA m : Test(regexp, getMessageText(m)))

RECURSIVE MatchesOfThreads(_, _, _)
\* for (let i = session.threads.length - 1; i >= 0; i--) ...
MatchesOfThreads(regexp, threads, i) ==
  IF i = 0 THEN <<>>
  ELSE MatchesOf(regexp, threads[i].messages)
         \o MatchesOfThreads(regexp, threads, i - 1)

\* _searchSessions(regexp, s)
SearchSession(regexp, s) ==
  LET session == migrateSession(s)
      live == MatchesOf(regexp, session.messages)
      archived == IF Has(session, "threads")
                  THEN MatchesOfThreads(regexp, session.threads, Len(session.threads))
                  ELSE <<>>
      matchedMessages == live \o archived
  IN  [i \in 1..Len(matchedMessages) |-> migrateMessage(matchedMessages[i])]

\* the cap on matched messages over all sessions
MatchCap == 50

\* mutant: the scan never stops early
CapReachedNever(total) == FALSE

\* if (matchedMessageTotal >= 50) break
CapReached(total) == total >= MatchCap

\* stored messages: n messages of one text, numbered from `from` on
Msgs(n, from, text, schema) ==
  [i \in 1..n |-> [id |-> from + i, text |-> text, schema |-> schema]]

\* the session records the store can hold under an id
SessionShapes(id) ==
  {[id |-> id, name |-> "empty", messages |-> <<>>],
   [id |-> id, name |-> "plain",
    messages |-> Msgs(1, 0, <<"a", "b">>, "legacy")
                   \o Msgs(1, 1, <<"b", ".">>, "current")],
   [id |-> id, name |-> "threads",
    messages |-> Msgs(1, 0, <<"b">>, "current"),
    threads |-> <<[name |-> "older", messages |-> Msgs(1, 1, <<"A", "b">>, "legacy")
                                            \o Msgs(1, 2, <<".">>, "current")],
                  [name |-> "none", messages |-> <<>>],
                  [name |-> "newer", messages |-> Msgs(1, 3, <<"b">>, "current")
                                            \o Msgs(1, 4, <<"a", "B">>, "legacy")]>>],
   [id |-> id, name |-> "five", messages |-> Msgs(5, 0, <<"a", "b">>, "current")],
   [id |-> id, name |-> "many", messages |-> <<>>,
    threads |-> <<[name |-> "long", messages |-> Msgs(48, 0, <<"A", "b">>, "current")]>>],
   [id |-> id, name |-> "huge", messages |-> Msgs(MatchCap + 1, 0, <<"B">>, "current")]}

SessionIds == 1..MaxSessions

\* what the session store can hold: a list of session ids (oldest first) and
\* the records of some of them; a listed session can lack its record
SessionStores ==
  UNION {
    {[list |-> [i \in 1..n |-> i], sessions |-> f] :
       f \in UNION {{g \in [S -> UNION {SessionShapes(id) : id \in S}] :
                       \A id \in S : g[id].id = id} : S \in SUBSET (1..n)}}
    : n \in 0..MaxSessions}

\* the record stored for the session id, or null (<<>>)
GetSession(id) ==
  IF id \in DOMAIN sessionStore.sessions THEN sessionStore.sessions[id] ELSE <<>>

Queries == {<<>>, <<"a">>, <<"b">>, <<".">>, <<"A", "B">>, <<"b", ".">>}

\* sessionId: absent (0), the id of a listed session, or an id nobody has
SessionIdArgs == 0..(MaxSessions + 1)

\* { ...session, messages }
WithMessages(session, messages) == Spread(session, "messages" :> messages)

\* one step of the scan: the session was asked for, with `before` matched
\* messages so far; batch is what was handed to onResult (<<>>: nothing)
LogEntry(id, before, session, batch) ==
  [id |-> id, before |-> before, session |-> session, batch |-> batch]

SearchFrame == UNCHANGED <<sessionStore, plannerVars, tokenVars, ingestVars>>

\* the keys searchSessions reads: StorageKey.ChatSessionsList and
\* StorageKeyGenerator.session(id)
ListKey == [key |-> "chat-sessions-list", id |-> 0]

SessionKey(id) == [key |-> "session", id |-> id]

\* an awaited storage.getItem rejects: nothing catches it and the promise of
\* searchSessions rejects
SearchThrows(key) ==
  search' = [search EXCEPT !.pc = "thrown", !.reads = Append(@, key)]

\* searchSessions(searchInput, sessionId, onResult) is called: the pattern is
\* compiled and the first storage.getItem is awaited
SearchStart ==
  /\ search.pc = "idle"
  /\ \E searchInput \in Queries, sessionId \in SessionIdArgs :
       search' = [search EXCEPT
                    !.pc = IF sessionId # 0 THEN "one" ELSE "list",
                    !.searchInput = searchInput,
                    !.sessionId = sessionId,
                    !.regexp = Compile(Escape(searchInput))]
  /\ SearchFrame

\* mutant: with a session id the batch is cut at the cap
SearchOneCapped ==
  /\ search.pc = "one"
  /\ LET session == GetSession(search.sessionId)
         found == SearchSession(search.regexp, session)
         matchedMessages ==
           SubSeq(found, 1, IF Len(found) > MatchCap THEN MatchCap ELSE Len(found))
     IN  search' =
           IF session # <<>>
           THEN [search EXCEPT
                   !.pc = "done",
                   !.reads = Append(@, SessionKey(search.sessionId)),
                   !.matchedMessageTotal = @ + Len(matchedMessages),
                   !.log = Append(@, LogEntry(search.sessionId, search.matchedMessageTotal,
                                  session, <<WithMessages(session, matchedMessages)>>))]
           ELSE [search EXCEPT
                   !.pc = "done",
                   !.reads = Append(@, SessionKey(search.sessionId)),
                   !.log = Append(@, LogEntry(search.sessionId, search.matchedMessageTotal,
                                              session, <<>>))]
  /\ SearchFrame

\* a session id was given: the session is loaded and, when it exists,
\* searched and handed to onResult
SearchOne ==
  /\ search.pc = "one"
  /\ \/ SearchThrows(SessionKey(search.sessionId))
     \/ LET session == GetSession(search.sessionId)
            matchedMessages == SearchSession(search.regexp, session)
        IN  search' =
              IF session # <<>>
              THEN [search EXCEPT
                      !.pc = "done",
                      !.reads = Append(@, SessionKey(search.sessionId)),
                      !.matchedMessageTotal = @ + Len(matchedMessages),
                      !.log = Append(@, LogEntry(search.sessionId, search.matchedMessageTotal,
                                     session, <<WithMessages(session, matchedMessages)>>))]
              ELSE [search EXCEPT
                      !.pc = "done",
                      !.reads = Append(@, SessionKey(search.sessionId)),
                      !.log = Append(@, LogEntry(search.sessionId, search.matchedMessageTotal,
                                                 session, <<>>))]
  /\ SearchFrame

\* no session id: the session list is loaded and sorted
SearchList ==
  /\ search.pc = "list"
  /\ \/ LET sessionsList == sortSessions(sessionStore.list)
        IN  search' = [search EXCEPT
                         !.pc = IF sessionsList = <<>> THEN "done" ELSE "scan",
                         !.reads = Append(@, ListKey),
                         !.sessionsList = sessionsList,
                         !.cursor = 1]
     \/ SearchThrows(ListKey)
  /\ SearchFrame

\* mutant: a listed session without a record is asked for again
SearchNextAgain ==
  /\ search.pc = "scan"
  /\ LET id == search.sessionsList[search.cursor]
         session == GetSession(id)
         messages == IF session # <<>> THEN SearchSession(search.regexp, session)
                     ELSE <<>>
         emits == session # <<>> /\ Len(messages) > 0
         total == search.matchedMessageTotal + Len(messages)
         stops == \/ session # <<>> /\ CapReached(total)
                  \/ search.cursor = Len(search.sessionsList)
     IN  \/ SearchThrows(SessionKey(id))
         \/ search' = [search EXCEPT
                         !.pc = IF stops /\ session # <<>> THEN "done" ELSE "scan",
                         !.reads = Append(@, SessionKey(id)),
                         !.cursor = IF session # <<>> THEN @ + 1 ELSE @,
                         !.matchedMessageTotal = total,
                         !.log = Append(@, LogEntry(id, search.matchedMessageTotal, session,
                                    IF emits THEN <<WithMessages(session, messages)>>
                                    ELSE <<>>))]
  /\ SearchFrame

\* one turn of the loop over the session list
SearchNext ==
  /\ search.pc = "scan"
  /\ LET id == search.sessionsList[search.cursor]
         session == GetSession(id)
         messages == IF session # <<>> THEN SearchSession(search.regexp, session)
                     ELSE <<>>
         emits == session # <<>> /\ Len(messages) > 0
         total == search.matchedMessageTotal + Len(messages)
         stops == \/ session # <<>> /\ CapReached(total)
                  \/ search.cursor = Len(search.sessionsList)
     IN  \/ SearchThrows(SessionKey(id))
         \/ search' = [search EXCEPT
                         !.pc = IF stops THEN "done" ELSE "scan",
                         !.reads = Append(@, SessionKey(id)),
                         !.cursor = @ + 1,
                         !.matchedMessageTotal = total,
                         !.log = Append(@, LogEntry(id, search.matchedMessageTotal, session,
                                    IF emits THEN <<WithMessages(session, messages)>>
                                    ELSE <<>>))]
  /\ SearchFrame

InitSearch ==
  /\ PlannerIdle /\ TokensIdle /\ IngestIdle
  /\ sessionStore \in SessionStores
  /\ search = [pc |-> "idle", searchInput |-> <<>>, sessionId |-> 0,
               regexp |-> <<>>, sessionsList |-> <<>>, cursor |-> 0,
               matchedMessageTotal |-> 0, reads |-> <<>>, log |-> <<>>]

NextSearch ==
  \/ SearchStart
  \/ SearchOne
  \/ SearchList
  \/ SearchNext

SpecSearch == InitSearch /\ [][NextSearch]_vars

\* every storage.getItem the search awaits settles (resolves or rejects), and
\* the continuation of a settled await runs: a search that can take a step
\* takes one
SpecSearchLiveAll == SpecSearch /\ WF_vars(NextSearch)

\* the records that differ in how a scan goes on or ends: a session with a
\* few matches, sessions whose matches add up to the cap, a session that
\* exceeds the cap alone (a listed session can still lack its record)
LiveShapes == {"plain", "five", "many", "huge"}

InitSearchLive ==
  /\ InitSearch
  /\ \A id \in DOMAIN sessionStore.sessions :
       sessionStore.sessions[id].name \in LiveShapes

\* the search under the same fairness, over the stores of LiveShapes
SpecSearchLive == InitSearchLive /\ [][NextSearch]_vars /\ WF_vars(NextSearch)

----------------------------------------------------------------------------
(* Properties of the cache breakpoint planner *)

SystemIdx(msgs) == {i \in 0..(Len(msgs) - 1) : At(msgs, i).role = "system"}

\* index of the first system-role message, -1 when there is none
FirstSystem(msgs) ==
  IF SystemIdx(msgs) = {} THEN -1
  ELSE CHOOSE i \in SystemIdx(msgs) : \A j \in SystemIdx(msgs) : i <= j

\* the positions the planner picks for a prompt with this role layout
Chosen(msgs) ==
  (IF FirstSystem(msgs) # -1 THEN {FirstSystem(msgs)} ELSE {})
    \cup (IF Len(msgs) >= 3 THEN {Len(msgs) - 2} ELSE {})

Without(o, k) == [j \in (DOMAIN o) \ {k} |-> o[j]]

\* the two messages agree on everything but the cache marker
SameButMarker(a, b) ==
  /\ Without(a, "providerOptions") = Without(b, "providerOptions")
  /\ Without(ProviderOptionsOf(a), "anthropic") = Without(ProviderOptionsOf(b), "anthropic")
  /\ Without(AnthropicOf(a), "cacheControl") = Without(AnthropicOf(b), "cacheControl")

LastMarked(msgs) == IF MarkedIdx(msgs) = {} THEN -1 ELSE Max(MarkedIdx(msgs))

\* C1: for every unmarked prompt of length >= 3 whose first system message is at
\* index s (any s), the output is marked at s; it is also marked at length-2 when
\* length-2 # s, and when length-2 = s the message at s is the only marked one.
C1_SystemAndSecondToLast ==
  (pc = "sent" /\ Unmarked(given) /\ Len(given) >= 3 /\ FirstSystem(given) # -1) =>
    LET s == FirstSystem(given)
        t == Len(given) - 2
    IN  /\ Marked(At(sent, s))
        /\ t # s => Marked(At(sent, t))
        /\ t = s => MarkedIdx(sent) = {s}

\* C1 witness: four messages, two of them system, the first system message at
\* index 1: indices 1 and 2 are marked, the later system message is not.
C1_Witness ==
  /\ pc = "sent" /\ Unmarked(given) /\ Len(given) = 4
  /\ SystemIdx(given) = {1, 3}
  /\ MarkedIdx(sent) = {1, 2}

\* C2: for every unmarked prompt the output has at most two marked messages, and
\* only the first system message and the message at index length-2 can be marked.
C2_AtMostTwoMarkers ==
  (pc = "sent" /\ Unmarked(given)) =>
    /\ Cardinality(MarkedIdx(sent)) <= 2
    /\ MarkedIdx(sent) \subseteq {FirstSystem(given), Len(given) - 2}

\* C2 witness: an output with exactly two marked messages although the prompt
\* holds three system messages.
C2_Witness ==
  /\ pc = "sent" /\ Unmarked(given)
  /\ Cardinality(SystemIdx(given)) = 3
  /\ Cardinality(MarkedIdx(sent)) = 2

\* C3 (as claimed): when the prompt of a step is the marked output of the
\* previous step plus appended messages, the output carries markers only at
\* the positions picked for this step, hence on at most two messages.
C3_EarlierMarkersDropped ==
  (pc = "sent" /\ origin = "fedback") =>
    /\ MarkedIdx(sent) = Chosen(given)
    /\ Cardinality(MarkedIdx(sent)) <= 2

\* C4: an empty prompt is returned as it is (the same array); in a prompt of one
\* or two messages no message but the first system message is touched, so
\* without a system message the output equals the input and an unmarked prompt
\* such as [user] leaves without any marker.
C4_ShortPrompts ==
  pc = "sent" =>
    /\ Len(given) = 0 => (resultRef = promptRef /\ sent = given)
    /\ Len(given) \in {1, 2} =>
         /\ \A i \in 0..(Len(given) - 1) :
              i # FirstSystem(given) => At(sent, i) = At(given, i)
         /\ Unmarked(given) => MarkedIdx(sent) \subseteq {FirstSystem(given)}
         /\ FirstSystem(given) = -1 => sent = given
         /\ (FirstSystem(given) = -1 /\ Unmarked(given)) => Unmarked(sent)

\* C4 witness: the two-message prompt without a system message went through
\* the planner and carries no marker.
C4_Witness ==
  /\ pc = "sent" /\ Len(given) = 2 /\ FirstSystem(given) = -1
  /\ Unmarked(given) /\ Unmarked(sent)

C6_InputNotMutated ==
  pc = "sent" =>
    /\ heap.arr[promptRef] = [i \in 1..Len(given) |-> i]
    /\ \A r \in 1..Len(given) : heap.msg[r] = given[r]
    /\ Len(sent) = Len(given)
    /\ \A i \in 1..Len(given) :
         \/ sent[i] = given[i]
         \/ Marked(sent[i]) /\ SameButMarker(sent[i], given[i])

\* C6 witness: a message carrying another anthropic option was marked in the
\* output, kept that option, and the input object is still unmarked.
C6_Witness ==
  /\ pc = "sent"
  /\ \E i \in 1..Len(given) :
       /\ Marked(sent[i]) /\ ~Marked(given[i])
       /\ Has(AnthropicOf(sent[i]), "sendReasoning")
       /\ heap.msg[i] = given[i]
       /\ resultRef # promptRef

\* C7: the transform keeps nothing between invocations.  Whenever the first
\* prompt of the run is transformed again (retried at once, or replayed after
\* other prompts went through), the output is the output of the first call;
\* and for every call, whatever went before and whatever annotations or
\* markers the prompt carries, the messages the planner replaces are exactly
\* the ones picked from the prompt's length and role layout.
C7_NoHiddenState ==
  pc = "sent" =>
    /\ given = first.in => sent = first.out
    /\ {i \in 0..(Len(given) - 1) :
          At(heap.arr[resultRef], i) # At(heap.arr[promptRef], i)} = Chosen(given)

\* C7 witness: the first prompt, three or more messages long, was replayed
\* after a longer prompt had been transformed, and gave the first output again.
C7_Witness ==
  /\ pc = "sent" /\ origin = "replay"
  /\ given = first.in /\ Len(given) >= 3
  /\ Len(prevSent) > Len(given)
  /\ sent = first.out /\ ~Unmarked(sent)

\* C8: when a step's prompt is the previous step's prompt plus appended messages
\* and the system message is first, every message up to the previous output's
\* last marker is (up to markers) the message at the same index of the new
\* output, the index of the last marker does not decrease, and from a previous
\* prompt of at least 3 messages on it advances by the number appended.
C8_LastMarkerAdvances ==
  (pc = "sent" /\ origin \in {"rebuilt", "fedback"} /\ At(given, 0).role = "system") =>
    LET k == LastMarked(prevSent)
        k1 == LastMarked(sent)
    IN  /\ k <= k1
        /\ \A i \in 0..k : SameButMarker(At(prevSent, i), At(sent, i))
        /\ Len(prevSent) >= 3 => k1 = k + (Len(sent) - Len(prevSent))

\* C8 witness: a rebuilt step appended two messages to a prompt of three
\* messages and the last marker moved from index 1 to index 3.
C8_Witness ==
  /\ pc = "sent" /\ origin = "rebuilt" /\ At(given, 0).role = "system"
  /\ Len(prevSent) = 3 /\ Len(sent) = 5
  /\ LastMarked(prevSent) = 1 /\ LastMarked(sent) = 3

\* C33: applying the planner to its own output gives the output again: the
\* second output has the length of the first, its markers sit at exactly the
\* positions of the first output's markers, and every message of it equals the
\* message at the same index of the first output, provider options and marker
\* included (marking a marked message changes nothing).
C33_IdempotentOnOwnOutput ==
  (pc = "sent" /\ origin = "resent") =>
    /\ given = prevSent
    /\ Len(sent) = Len(prevSent)
    /\ MarkedIdx(sent) = MarkedIdx(prevSent)
    /\ \A i \in 1..Len(prevSent) : sent[i] = prevSent[i]

\* C33 witness: an output of four messages with markers on the system message
\* and on the second-to-last message, one of them carrying another anthropic
\* option, went through the planner again; both messages were marked a second
\* time (the planner replaced them by new objects) and the output is the same.
C33_Witness ==
  /\ pc = "sent" /\ origin = "resent"
  /\ Len(prevSent) = 4
  /\ MarkedIdx(prevSent) = {0, 2}
  /\ Has(AnthropicOf(At(prevSent, 0)), "sendReasoning")
  /\ {i \in 0..3 : At(heap.arr[resultRef], i) # At(heap.arr[promptRef], i)} = {0, 2}
  /\ sent = prevSent

----------------------------------------------------------------------------
(* Properties of the token accounting cache *)

\* C9: when the map passed in already has slot T, the returned map holds the
\* same value in slot T, no estimateTokens invocation computes slot T (the only
\* invocation is the one for the preview text) and slot T gets no timestamp;
\* slot T_preview is recomputed from the preview text and timestamped with the
\* time of the call on every call, present before or not.
C9_FullSlotKeptPreviewRefreshed ==
  tkPc = "done" =>
    LET T == tkArgs.tokenizerType
        P == PreviewKey(tkArgs.tokenizerType)
        preview == Join(Slice0(Split(tkArgs.content), PREVIEW_LINES))
    IN  /\ Has(tkArgs.existingTokenMap, T) =>
             /\ tkRet.tokenCountMap[T] = tkArgs.existingTokenMap[T]
             /\ \A i \in 1..Len(tkCalls) : tkCalls[i].slot # T
             /\ Len(tkCalls) = 1
             /\ ~Has(tkRet.tokenCalculatedAt, T)
        /\ Has(tkRet.tokenCountMap, P)
        /\ tkRet.tokenCountMap[P] = estimateTokens(preview, T)
        /\ \E i \in 1..Len(tkCalls) : tkCalls[i] = [slot |-> P, text |-> preview]
        /\ Has(tkRet.tokenCalculatedAt, P)
        /\ tkRet.tokenCalculatedAt[P] = tkArgs.now

\* C9 witness: a second call under the same tokenizer on a content of three
\* lines: slot T was present and kept its value, the preview slot was present
\* too, was computed again and carries the time of the second call.
C9_Witness ==
  /\ tkPc = "done" /\ tkArgs.now = 2
  /\ Len(Split(tkArgs.content)) = 3
  /\ Has(tkArgs.existingTokenMap, tkArgs.tokenizerType)
  /\ Has(tkArgs.existingTokenMap, PreviewKey(tkArgs.tokenizerType))
  /\ tkRet.tokenCountMap[tkArgs.tokenizerType] = estimateTokens(tkArgs.content, tkArgs.tokenizerType)
  /\ DOMAIN tkRet.tokenCalculatedAt = {PreviewKey(tkArgs.tokenizerType)}
  /\ tkRet.tokenCalculatedAt[PreviewKey(tkArgs.tokenizerType)] = 2

\* the number of newline characters of a content
Newlines(content) == Cardinality({i \in 1..Len(content) : content[i] = NL})

\* the number of characters of a content that take two bytes in UTF-8
TwoByteChars(content) == Cardinality({i \in 1..Len(content) : content[i] = "E"})

\* C24: lineCount is the number of newline characters of the content plus one
\* (1 for the empty content) and byteLength is the number of bytes of its UTF-8
\* encoding; both are given by the content alone, whatever the tokenizer and
\* the map passed in.
C24_LineCountAndByteLength ==
  tkPc = "done" =>
    /\ tkRet.lineCount = Newlines(tkArgs.content) + 1
    /\ tkRet.byteLength = Len(tkArgs.content) + TwoByteChars(tkArgs.content)

\* C24 witness: a content of four characters in two lines and a trailing
\* newline, one character of two bytes: three segments and five bytes, on a
\* second call under the deepseek tokenizer with a map that has slots.
C24_Witness ==
  /\ tkPc = "done" /\ tkArgs.now = 2
  /\ tkArgs.content = <<"E", NL, "a", NL>>
  /\ tkArgs.tokenizerType = "deepseek"
  /\ tkArgs.existingTokenMap # EmptyObj
  /\ tkRet.lineCount = 3
  /\ tkRet.byteLength = 5

\* the text of the first n newline-delimited lines of a content: what comes
\* before its n-th newline, the whole content when it has fewer than n
FirstLines(content, n) ==
  LET nth == {i \in 1..Len(content) :
                /\ content[i] = NL
                /\ Newlines(SubSeq(content, 1, i)) = n}
  IN  IF nth = {} THEN content
      ELSE SubSeq(content, 1, (CHOOSE i \in nth : TRUE) - 1)

\* C32: the preview slot T_preview of the returned map is the tokenizer-T
\* count of the first PREVIEW_LINES newline-delimited lines of the content
\* passed in; its name is not the name of a full-content slot; when the
\* content has at most PREVIEW_LINES lines and slot T is computed by the call,
\* slot T and slot T_preview hold the same value.
C32_PreviewSlot ==
  tkPc = "done" =>
    LET T == tkArgs.tokenizerType
        P == PreviewKey(tkArgs.tokenizerType)
        map == tkRet.tokenCountMap
    IN  /\ Has(map, P)
        /\ map[P] = estimateTokens(FirstLines(tkArgs.content, PREVIEW_LINES), T)
        /\ P # T
        /\ P \notin TokenizerTypes
        /\ (/\ Newlines(tkArgs.content) + 1 <= PREVIEW_LINES
            /\ \E i \in 1..Len(tkCalls) : tkCalls[i].slot = T)
             => map[T] = map[P]

\* C32 witness: a content of three lines under a map without slot T: the
\* preview slot counts the first two lines only and is smaller than slot T,
\* which the call computed.
C32_Witness ==
  /\ tkPc = "done"
  /\ tkArgs.content = <<"a", NL, "E", NL>>
  /\ ~Has(tkArgs.existingTokenMap, tkArgs.tokenizerType)
  /\ tkRet.tokenCountMap[tkArgs.tokenizerType]
       = estimateTokens(<<"a", NL, "E", NL>>, tkArgs.tokenizerType)
  /\ tkRet.tokenCountMap[PreviewKey(tkArgs.tokenizerType)]
       = estimateTokens(<<"a", NL, "E">>, tkArgs.tokenizerType)

\* the second case of C32 occurs: a content of exactly PREVIEW_LINES lines,
\* slot T computed by the call, both slots equal and not zero
ShortContentSlotsEqual ==
  /\ tkPc = "done"
  /\ Newlines(tkArgs.content) + 1 = PREVIEW_LINES
  /\ ~Has(tkArgs.existingTokenMap, tkArgs.tokenizerType)
  /\ tkRet.tokenCountMap[tkArgs.tokenizerType] > 0
  /\ tkRet.tokenCountMap[tkArgs.tokenizerType]
       = tkRet.tokenCountMap[PreviewKey(tkArgs.tokenizerType)]

----------------------------------------------------------------------------
(* Properties of the content ingestion pipeline *)

\* C10 (as claimed): once a preprocessFile of the file has returned without
\* error, every preprocessFile of the same file called after that invokes no
\* parser backend, writes no blob, and returns without error the content stored
\* under the file's key, with that key as storageKey.
C10_ReingestionIdempotent ==
  \A p \in Tasks :
    procs[p].late =>
      /\ procs[p].parserCalls = 0
      /\ procs[p].blobWrites = 0
      /\ procs[p].pc = "done" =>
           /\ ~Has(procs[p].out, "error")
           /\ procs[p].out.storageKey = UniqKey
           /\ UniqKey \in DOMAIN blobs
           /\ procs[p].out.content = blobs[UniqKey]

\* an invocation that has returned, and one that has returned without error
Returned(p) == procs[p].pc = "done"

ReturnedOk(p) == Returned(p) /\ ~Has(procs[p].out, "error")

\* C11 (as claimed): when two ingestions of a source ingested before, which
\* both found the stored content and ran under different tokenizers, have
\* returned, the token map stored under the key has every slot of the maps
\* they returned: no slot added by one of them is lost, however their steps
\* interleaved.
C11_NoSlotLost ==
  (/\ \A p \in Tasks : ReturnedOk(p) /\ procs[p].late /\ procs[p].path = "hit"
   /\ procs[1].tokenizerType # procs[2].tokenizerType)
    => \A p \in Tasks :
         DOMAIN procs[p].out.tokenCountMap
           \subseteq DOMAIN GetItem(TokenMapKey(UniqKey))

\* C12 (as claimed): when the MinerU backend reports that the user cancelled
\* the parse, the result of preprocessFile has the error "parsing_cancelled".
C12_CancelledReported ==
  \A p \in Tasks :
    (Returned(p) /\ procs[p].outcome = "cancelled")
      => /\ Has(procs[p].out, "error")
         /\ procs[p].out.error = "parsing_cancelled"

\* C13 (as claimed): an invocation in which an operation failed (key
\* derivation, store read or write, backend call, token accounting) returns a
\* result with a non-empty error, an empty content and an empty storageKey.
C13_FailureBecomesErrorResult ==
  \A p \in Tasks :
    (Returned(p) /\ procs[p].fault)
      => /\ Has(procs[p].out, "error")
         /\ procs[p].out.error # ""
         /\ procs[p].out.content = <<>>
         /\ procs[p].out.storageKey = ""

\* the invocation has left the cache lookup behind as a miss and has gone on
PastMiss(p) == procs[p].path = "miss" /\ procs[p].pc # "miss"

\* C14: a text-typed file that misses the cache is parsed by the local
\* backend whatever parser is configured (none, local, chatbox-ai, mineru, or
\* an unknown one): the first thing the invocation does is call the local
\* backend, it calls no other, and a failure of the local backend is reported
\* as "local_parser_failed"; no result says "document_parser_not_configured".
C14_TextFileParsedLocally ==
  (settings.kind = "file" /\ settings.isText) =>
    \A p \in Tasks :
      /\ procs[p].backend \in {"none", "local"}
      /\ PastMiss(p) => procs[p].backend = "local" /\ procs[p].parserCalls = 1
      /\ (Returned(p) /\ procs[p].outcome \in {"throws", "unsupported"})
           => procs[p].out = ErrorResult("local_parser_failed")
      /\ (Returned(p) /\ Has(procs[p].out, "error"))
           => procs[p].out.error # "document_parser_not_configured"

\* C14 witness: a text file under the MinerU configuration missed the cache,
\* the local backend was called and threw, and the result says so.
C14_Witness ==
  /\ settings.kind = "file" /\ settings.isText /\ settings.type = "mineru"
  /\ Returned(1) /\ procs[1].path = "miss"
  /\ procs[1].backend = "local" /\ procs[1].outcome = "throws"
  /\ procs[1].out.error = "local_parser_failed"

\* the invocation did nothing but return its error
NothingDone(p) ==
  /\ procs[p].parserCalls = 0
  /\ procs[p].blobWrites = 0
  /\ procs[p].itemWrites = 0
  /\ procs[p].backend = "none"

\* C15: for a file that is not text-typed and misses the cache, parser type
\* 'none' or an unknown type gives the error "document_parser_not_configured"
\* and type 'mineru' without an API token gives "mineru_api_token_required";
\* the invocation calls no backend and writes nothing, and the content store
\* stays as it was (empty).
C15_ConfigurationFailuresFirst ==
  (settings.kind = "file" /\ ~settings.isText) =>
    \A p \in Tasks :
      PastMiss(p) =>
        /\ settings.type \in {"none", "unknown"} =>
             /\ Returned(p) /\ NothingDone(p)
             /\ procs[p].out = ErrorResult("document_parser_not_configured")
             /\ blobs = EmptyObj /\ items = EmptyObj
        /\ (settings.type = "mineru" /\ ~settings.apiToken) =>
             /\ Returned(p) /\ NothingDone(p)
             /\ procs[p].out = ErrorResult("mineru_api_token_required")
             /\ blobs = EmptyObj /\ items = EmptyObj

\* C15 witness: MinerU is configured without a token, on a platform that has
\* the backend; the second invocation for the file has returned the
\* configuration error as the first did.
C15_Witness ==
  /\ settings.kind = "file" /\ ~settings.isText
  /\ settings.type = "mineru" /\ ~settings.apiToken /\ settings.hasMineru
  /\ hist.started = 2
  /\ Returned(1) /\ procs[1].path = "miss"
  /\ procs[1].out.error = "mineru_api_token_required"

\* C16 (as claimed): when the call of a file backend fails, the result names
\* the condition of that backend: "local_parser_failed" for the local one,
\* "chatbox_ai_parser_failed" for the cloud one, and for MinerU
\* "third_party_parser_not_supported_in_chat" when the platform lacks it and
\* "third_party_parser_failed" otherwise; no message of the backend's own
\* reaches the error field.
C16_BackendFailuresNamed ==
  settings.kind = "file" =>
    \A p \in Tasks :
      /\ (Returned(p) /\ procs[p].outcome \notin {"none", "ok"}) =>
           /\ procs[p].backend = "local"
                => procs[p].out = ErrorResult("local_parser_failed")
           /\ procs[p].backend = "chatbox-ai"
                => procs[p].out = ErrorResult("chatbox_ai_parser_failed")
           /\ procs[p].backend = "mineru"
                => procs[p].out = ErrorResult("third_party_parser_failed")
      /\ (PastMiss(p) /\ Backend = "mineru" /\ settings.apiToken
            /\ ~settings.hasMineru)
           => /\ Returned(p)
              /\ procs[p].out = ErrorResult("third_party_parser_not_supported_in_chat")

\* C17 (as claimed): an invocation that missed the cache and returned without
\* error has written the blob once and the blob is stored under the storageKey
\* it returned; an invocation that hit the cache has written no blob.
C17_BlobWrittenOncePerMiss ==
  \A p \in Tasks :
    ReturnedOk(p) =>
      /\ procs[p].path = "miss" =>
           /\ procs[p].blobWrites = 1
           /\ procs[p].out.storageKey \in DOMAIN blobs
      /\ procs[p].path = "hit" => procs[p].blobWrites = 0

\* the full-content slots of the map stored under the key hold the counts of
\* the blob stored under the key
MapCountsTheBlob ==
  LET map == GetItem(TokenMapKey(UniqKey))
  IN  \A k \in DOMAIN map \cap TokenizerTypes :
        map[k] = estimateTokens(GetBlob(UniqKey), k)

\* C25 (as claimed): when two concurrent ingestions of the source have both
\* missed the cache, both written the blob and both returned without error,
\* every full-content slot of the token map stored under the key is the count
\* of the blob stored under the key, whatever the two parses returned.
C25_StoreConsistentUnderRaces ==
  (\A p \in Tasks :
     /\ ReturnedOk(p) /\ ~procs[p].fault
     /\ procs[p].path = "miss" /\ procs[p].blobWrites = 1)
    => MapCountsTheBlob

\* what holds of the race: when every parse of the file so far gave the same
\* non-empty content, the stored map counts the stored blob
SameContentConsistent ==
  (/\ settings.kind = "file" /\ Backend \in {"local", "mineru"}
   /\ hist.started = Cardinality({p \in Tasks : procs[p].pc # "idle"})
   /\ \A p \in Tasks :
        /\ procs[p].pc \in {"idle", "done"} /\ ~procs[p].fault
        /\ procs[p].path = "miss" => procs[p].blobWrites = 1)
    => MapCountsTheBlob

\* C26: on a cache hit the invocation reads the map stored under the key, and
\* the map it persists and returns under the current tokenizer T is that map
\* extended for T: it has the slots of the stored map and T and T_preview and
\* no other, and every slot but T and T_preview has the stored value.
C26_HitExtendsStoredMap ==
  [][\A p \in Tasks :
       /\ (procs[p].pc = "hit" /\ procs'[p].pc = "hitWrite")
            => procs'[p].existingTokenMap = GetItem(TokenMapKey(UniqKey))
       /\ (procs[p].pc = "hitWrite" /\ procs'[p].pc = "return")
            => LET old == procs[p].existingTokenMap
                   new == procs'[p].out.tokenCountMap
                   own == {tokenizer, PreviewKey(tokenizer)}
               IN  /\ items'[TokenMapKey(UniqKey)] = new
                   /\ DOMAIN new = DOMAIN old \cup own
                   /\ \A k \in DOMAIN old \ own : new[k] = old[k]
    ]_vars

\* C26 witness: a link was ingested under the default tokenizer; a later call
\* under deepseek hits the cache, reads the two default slots and has
\* persisted and returned a map with the four slots, the default ones as stored.
C26_Witness ==
  /\ settings.kind = "link"
  /\ procs[1].pc = "return" /\ procs[1].path = "hit" /\ procs[2].pc = "idle"
  /\ procs[1].tokenizerType = "deepseek"
  /\ procs[1].existingTokenMap = [default |-> 5, default_preview |-> 3]
  /\ procs[1].out.tokenCountMap
       = [default |-> 5, default_preview |-> 3, deepseek |-> 10, deepseek_preview |-> 6]
  /\ GetItem(TokenMapKey(UniqKey)) = procs[1].out.tokenCountMap

\* C27: whether an invocation hits the cache is decided by the store alone:
\* with a blob under the key (and the read answering) the invocation calls no
\* backend and, unless a store operation fails, returns without error the
\* stored content with the key as storageKey, whatever parser is configured
\* ('none' and 'mineru' without a token included) and whether or not the user
\* is pro; an invocation goes on as a miss only when nothing is stored or the
\* read was rejected.  The result of a hit is a function of the store, so two
\* runs that differ in the configuration only return the same content and key.
C27_HitWhateverTheConfiguration ==
  /\ procs[1].path = "hit" =>
       /\ procs[1].parserCalls = 0 /\ procs[1].backend = "none"
       /\ (Returned(1) /\ ~procs[1].fault) =>
            /\ ~Has(procs[1].out, "error")
            /\ procs[1].out.content # <<>>
            /\ procs[1].out.content = GetBlob(UniqKey)
            /\ procs[1].out.storageKey = UniqKey
  /\ (procs[1].path = "miss" /\ ~procs[1].fault /\ procs[1].blobWrites = 0)
       => UniqKey \notin DOMAIN blobs

\* C27 witness: a file that is not text-typed was ingested under some parser;
\* with parser type 'none' a later invocation has hit the cache and returned
\* the stored content without error.
C27_Witness ==
  /\ settings.kind = "file" /\ ~settings.isText /\ settings.type = "none"
  /\ ReturnedOk(1) /\ procs[1].path = "hit" /\ procs[1].late
  /\ procs[1].out.content = <<"a", NL, "E", NL, "a">>
  /\ procs[1].out.storageKey = UniqKey

\* the other configurations of the claim are reached too: a hit under MinerU
\* without a token, and a hit on a link once the user is not pro any more
HitWithoutMineruToken ==
  /\ settings.kind = "file" /\ ~settings.isText
  /\ settings.type = "mineru" /\ ~settings.apiToken
  /\ ReturnedOk(1) /\ procs[1].path = "hit" /\ procs[1].out.content # <<>>

HitOnLinkNotPro ==
  /\ settings.kind = "link" /\ ~settings.isPro
  /\ ReturnedOk(1) /\ procs[1].path = "hit"
  /\ procs[1].out.content # <<>>

\* C28: the step that ends a miss with a non-empty content (a file or a link)
\* persists under the key's token-map key the very map the invocation returns,
\* without error and with the parsed content; under the current tokenizer T the
\* map has slot T, the count of the full content, and slot T_preview.
C28_MissPersistsTheReturnedMap ==
  [][\A p \in Tasks :
       (/\ procs[p].path = "miss"
        /\ procs[p].pc # "return" /\ procs'[p].pc = "return"
        /\ procs'[p].out.content # <<>>)
         => LET map == procs'[p].out.tokenCountMap
            IN  /\ ~Has(procs'[p].out, "error")
                /\ procs'[p].out.content = procs[p].content
                /\ items'[TokenMapKey(UniqKey)] = map
                /\ {tokenizer, PreviewKey(tokenizer)} \subseteq DOMAIN map
                /\ map[tokenizer] = estimateTokens(procs[p].content, tokenizer)
    ]_vars

\* C28 witness: a file missed the cache under the deepseek tokenizer, its
\* content of five characters was parsed and stored, and the map returned and
\* persisted has the deepseek slot with 10 and the deepseek preview slot.
C28_Witness ==
  /\ settings.kind = "file" /\ tokenizer = "deepseek"
  /\ procs[1].pc = "return" /\ procs[1].path = "miss" /\ procs[2].pc = "idle"
  /\ procs[1].out.content = <<"a", NL, "E", NL, "a">>
  /\ procs[1].out.tokenCountMap
       = [default |-> 5, deepseek |-> 10, deepseek_preview |-> 6]
  /\ GetItem(TokenMapKey(UniqKey)) = procs[1].out.tokenCountMap

\* the same for a link: the two slots of the current tokenizer
MissOnLinkPersistsTheMap ==
  /\ settings.kind = "link" /\ tokenizer = "default"
  /\ procs[1].pc = "return" /\ procs[1].path = "miss" /\ procs[2].pc = "idle"
  /\ procs[1].out.tokenCountMap = [default |-> 5, default_preview |-> 3]
  /\ GetItem(TokenMapKey(UniqKey)) = procs[1].out.tokenCountMap

\* C29 (as claimed): in every state of the content store, a token map is
\* stored under the token-map key of the source only if a non-empty blob is
\* stored under its key.
C29_TokenMapOnlyWithBlob ==
  TokenMapKey(UniqKey) \in DOMAIN items
    => /\ UniqKey \in DOMAIN blobs
       /\ blobs[UniqKey] # <<>>

\* what holds of C29: for a link the token map is never stored without the blob
TokenMapOnlyWithBlobForLinks ==
  settings.kind = "link" => C29_TokenMapOnlyWithBlob

\* C30 (as claimed): an invocation that returns an error has written neither
\* the blob nor the token map of the source.
C30_ErrorLeavesStoreUnchanged ==
  \A p \in Tasks :
    (Returned(p) /\ Has(procs[p].out, "error"))
      => /\ procs[p].blobWrites = 0
         /\ procs[p].itemWrites = 0

\* what holds of C30: an error that does not come after a parse that gave a
\* content (a configuration error, a failed or cancelled backend call, a failed
\* store operation of the hit path) is returned before anything was written
ErrorBeforeContentWritesNothing ==
  \A p \in Tasks :
    (Returned(p) /\ Has(procs[p].out, "error") /\ procs[p].outcome # "ok")
      => /\ procs[p].blobWrites = 0
         /\ procs[p].itemWrites = 0

\* the blob stored under key after the step; <<>> when there is none
BlobAfter(key) == IF key \in DOMAIN blobs' THEN blobs'[key] ELSE <<>>

\* the step in which task p returns a result without error
ReturnsOk(p) ==
  /\ procs[p].pc # "done"
  /\ procs'[p].pc = "done"
  /\ ~Has(procs'[p].out, "error")

\* C31 (as claimed): whenever an invocation returns without error and with a
\* non-empty storageKey, the content it returns is the blob stored under that
\* storageKey at the moment of return, on the hit path and on the miss path,
\* whatever another ingestion of the same source did in between.
C31_ReturnedContentIsTheStoredBlob ==
  [][\A p \in Tasks :
       (ReturnsOk(p) /\ procs'[p].out.storageKey # "")
         => /\ procs'[p].out.storageKey \in DOMAIN blobs'
            /\ blobs'[procs'[p].out.storageKey] = procs'[p].out.content
    ]_vars

\* the same with an invocation that returns a non-empty content: it fails by
\* the race of two ingestions alone
ReturnedNonEmptyContentIsTheStoredBlob ==
  [][\A p \in Tasks :
       (ReturnsOk(p) /\ procs'[p].out.content # <<>>)
         => BlobAfter(procs'[p].out.storageKey) = procs'[p].out.content
    ]_vars

\* what holds of C31: an invocation that runs alone from its call to its
\* return, and returns a non-empty content without error, returns the blob
\* stored under the returned storageKey
AloneReturnsTheStoredBlob ==
  [][\A p \in Tasks :
       (/\ ReturnsOk(p) /\ procs'[p].out.content # <<>>
        /\ \A q \in Tasks \ {p} : procs[q].pc = "idle")
         => BlobAfter(procs'[p].out.storageKey) = procs'[p].out.content
    ]_vars

----------------------------------------------------------------------------
(* Properties of the session search *)

RECURSIVE Flatten(_)
Flatten(lists) ==
  IF lists = <<>> THEN <<>> ELSE Head(lists) \o Flatten(Tail(lists))

\* every stored message of a session: the live ones and those of its threads
StoredMessages(session) ==
  session.messages
    \o (IF Has(session, "threads")
        THEN Flatten([t \in 1..Len(session.threads) |-> session.threads[t].messages])
        ELSE <<>>)

\* the text contains the query as a literal string, the case of letters aside
ContainsIgnoringCase(text, query) ==
  \E start \in 0..(Len(text) - Len(query)) :
    \A j \in 1..Len(query) : Fold(text[start + j]) = Fold(query[j])

\* the stored messages of the session whose text contains the query
Matching(session, query) ==
  SelectSeq(StoredMessages(session), LAMBDA m : ContainsIgnoringCase(m.text, query))

Range(list) == {list[i] : i \in 1..Len(list)}

\* C18: with no session id, a session is loaded only while fewer than 50
\* matched messages have been emitted, so every batch is emitted with a count
\* below 50 before it, and the scan goes on only below 50; the batch of a
\* session holds all the matching messages of the session, also when it takes
\* the count past 50.
C18_SearchCap ==
  (search.pc # "idle" /\ search.sessionId = 0) =>
    /\ \A i \in 1..Len(search.log) :
         LET e == search.log[i]
         IN  /\ e.before < MatchCap
             /\ e.batch # <<>> =>
                  Len(e.batch[1].messages)
                    = Len(Matching(e.session, search.searchInput))
    /\ search.pc = "scan" => search.matchedMessageTotal < MatchCap
    /\ search.matchedMessageTotal
         = Len(Flatten([i \in 1..Len(search.log) |->
                          IF search.log[i].batch = <<>> THEN <<>>
                          ELSE search.log[i].batch[1].messages]))

\* C18 witness: 48 matches were emitted for the first session, the second
\* session has 5 and all 5 were emitted; the scan stopped at 53 and the third
\* session was never loaded.
C18_Witness ==
  /\ search.pc = "done" /\ search.sessionId = 0
  /\ Len(search.sessionsList) = 3 /\ Len(search.log) = 2
  /\ search.log[2].before = 48
  /\ Len(search.log[2].batch[1].messages) = 5
  /\ search.matchedMessageTotal = 53

\* C19 (as claimed): in both modes, a loaded session is handed to the callback
\* if and only if it has a matching message, as one batch of one session
\* record.
C19_BatchIffMatch ==
  \A i \in 1..Len(search.log) :
    LET e == search.log[i]
    IN  e.session # <<>> =>
          /\ e.batch # <<>> <=> Matching(e.session, search.searchInput) # <<>>
          /\ e.batch # <<>> => Len(e.batch) = 1

\* C20: the messages of an emitted batch are the stored messages of the
\* session, live or archived in a thread, whose text contains the query as a
\* literal string whatever the case of the letters, each once and in the
\* current schema; the other fields of the session record are those stored.
C20_BatchHoldsTheMatches ==
  \A i \in 1..Len(search.log) :
    LET e == search.log[i]
    IN  e.batch # <<>> =>
          LET r == e.batch[1]
              expected == Matching(e.session, search.searchInput)
          IN  /\ Without(r, "messages") = Without(e.session, "messages")
              /\ Len(r.messages) = Len(expected)
              /\ Range(r.messages) = {migrateMessage(m) : m \in Range(expected)}

\* C20 witness: the query is a dot; the session has a live message and two
\* archived ones, and the batch holds the one archived message with a dot.
C20_Witness ==
  /\ search.searchInput = <<".">>
  /\ Len(search.log) >= 1
  /\ search.log[1].session # <<>>
  /\ search.log[1].session.name = "threads"
  /\ search.log[1].batch # <<>>
  /\ search.log[1].batch[1].messages
       = <<[id |-> 3, text |-> <<".">>, schema |-> "current"]>>

\* the stored messages of a session in the order they were written: the
\* archived threads from the first to the last, then the live messages
Chronological(session) ==
  (IF Has(session, "threads")
   THEN Flatten([t \in 1..Len(session.threads) |-> session.threads[t].messages])
   ELSE <<>>)
    \o session.messages

\* the matching messages of the session, the most recent first, as returned
MostRecentFirst(session, query) ==
  LET all == Chronological(session)
      newestFirst == [i \in 1..Len(all) |-> all[Len(all) + 1 - i]]
      hits == SelectSeq(newestFirst, LAMBDA m : ContainsIgnoringCase(m.text, query))
  IN  [i \in 1..Len(hits) |-> migrateMessage(hits[i])]

\* C21: without a session id the sessions are loaded, and so their batches
\* emitted, in the order of the sorted list, the most recently used first;
\* every callback invocation gets one whole session; in a batch the matches
\* are ordered most recent first: the live messages from the last to the
\* first, then the threads from the last to the first, each from its last
\* message to its first.
C21_ScanOrder ==
  /\ search.sessionId = 0 =>
       \A i \in 1..Len(search.log) :
         search.log[i].id
           = sessionStore.list[Len(sessionStore.list) + 1 - i]
  /\ \A i \in 1..Len(search.log) :
       LET e == search.log[i]
       IN  e.batch # <<>> =>
             /\ Len(e.batch) = 1
             /\ e.batch[1].id = e.id
             /\ e.batch[1].messages = MostRecentFirst(e.session, search.searchInput)

\* C21 witness: two sessions are listed; the one used last has a live message
\* and three threads and its batch holds the live match, then the two of the
\* last thread backwards, then the one of the first thread; the batch of the
\* other session follows with its two live messages, the last one first.
C21_Witness ==
  /\ search.pc = "done" /\ search.sessionId = 0
  /\ search.searchInput = <<"b">>
  /\ Len(search.log) = 2
  /\ search.log[1].id = 2 /\ search.log[2].id = 1
  /\ search.log[1].batch # <<>> /\ search.log[2].batch # <<>>
  /\ Len(search.log[1].batch[1].messages) = 4
  /\ Len(search.log[2].batch[1].messages) = 2
  /\ [i \in 1..4 |-> search.log[1].batch[1].messages[i].id] = <<1, 5, 4, 2>>
  /\ [i \in 1..2 |-> search.log[2].batch[1].messages[i].id] = <<2, 1>>

\* C22: when a session id is given, the only key read from the store is the
\* one of that session, read once (the session list is never read); at most
\* one batch is emitted, and it holds all the matching messages of the
\* session, more than 50 included.
C22_OneSessionOnly ==
  search.sessionId # 0 =>
    /\ Len(search.reads) <= 1
    /\ \A i \in 1..Len(search.reads) :
         search.reads[i] = SessionKey(search.sessionId)
    /\ search.sessionsList = <<>>
    /\ Len(search.log) <= 1
    /\ \A i \in 1..Len(search.log) :
         LET e == search.log[i]
         IN  /\ e.id = search.sessionId
             /\ e.session = GetSession(search.sessionId)
             /\ e.batch # <<>> =>
                  /\ Len(e.batch) = 1
                  /\ e.batch[1].messages
                       = MostRecentFirst(e.session, search.searchInput)
                  /\ Len(e.batch[1].messages)
                       = Len(Matching(e.session, search.searchInput))

\* C22 witness: the session asked for has 51 matching messages and its batch
\* holds the 51, while other sessions are listed.
C22_Witness ==
  /\ search.pc = "done" /\ search.sessionId = 2
  /\ Len(sessionStore.list) = 3
  /\ search.reads = <<SessionKey(2)>>
  /\ Len(search.log) = 1
  /\ search.log[1].batch # <<>>
  /\ Len(search.log[1].batch[1].messages) = MatchCap + 1

\* C23 (as claimed): without a session id, a session that cannot be loaded
\* (no record under its key, or the read of the store fails) does not end the
\* search: when the search is over, every session of the list was read, unless
\* the cap of 50 was reached, and every session that was loaded and has a
\* match was emitted.
C23_LoadFailureIsolated ==
  (/\ search.sessionId = 0
   /\ search.pc \in {"done", "thrown"}
   /\ Len(search.reads) >= 1
   /\ search.sessionsList # <<>>)
    => /\ \/ search.matchedMessageTotal >= MatchCap
          \/ Len(search.reads) = 1 + Len(search.sessionsList)
       /\ \A i \in 1..Len(search.log) :
            LET e == search.log[i]
            IN  (e.session # <<>> /\ Matching(e.session, search.searchInput) # <<>>)
                  => e.batch # <<>>

\* a listed session without a record is skipped and the scan goes on, as long
\* as no read of the store fails
MissingRecordSkipped ==
  (search.sessionId = 0 /\ search.pc = "done" /\ search.sessionsList # <<>>)
    => \/ search.matchedMessageTotal >= MatchCap
       \/ Len(search.log) = Len(search.sessionsList)

\* no key is read twice: the session list at most once and each session's
\* record at most once
EachKeyReadOnce ==
  \A i, j \in 1..Len(search.reads) :
    i # j => search.reads[i] # search.reads[j]

\* the callback got at most one batch for each session
OneBatchPerSession ==
  \A id \in SessionIds \cup SessionIdArgs :
    Cardinality({i \in 1..Len(search.log) :
                   search.log[i].id = id /\ search.log[i].batch # <<>>}) <= 1

\* the loads and batches of C34, as a state predicate: it holds in every state
\* of the search over all stores as well
SearchLoadsOnce ==
  /\ EachKeyReadOnce
  /\ OneBatchPerSession
  /\ Len(search.reads) <= Len(sessionStore.list) + 1

\* the invocation is over: its promise is resolved or rejected
SearchOver == search.pc \in {"done", "thrown"}

\* C34: every searchSessions invocation over a finite session list comes to
\* an end; during it each listed session is loaded at most once (and no more
\* loads happen than the list has entries, plus the read of the list), the
\* callback is invoked at most once per session, and the session store is
\* never written.
C34_SearchTerminates ==
  /\ (search.pc # "idle") ~> SearchOver
  /\ []SearchLoadsOnce
  /\ [][sessionStore' = sessionStore]_vars

\* C34 witness: a search over a list of three sessions came to its end after
\* loading the list and each of the three sessions once, handing two batches
\* to the callback.
C34_Witness ==
  /\ search.pc = "done"
  /\ Len(sessionStore.list) = 3
  /\ Len(search.reads) = 4
  /\ {search.reads[i] : i \in 1..4} = {ListKey} \cup {SessionKey(id) : id \in 1..3}
  /\ Cardinality({i \in 1..Len(search.log) : search.log[i].batch # <<>>}) = 2

====
